---- MODULE Spec2Model ----
(***************************************************************************)
(* Hotel booking store of Hotel_cancellations_prediction-main.             *)
(*                                                                         *)
(* app_with_auth.py: every browser session runs user_interface(user) as a  *)
(* Streamlit script.  A run first reads the store to build its widgets     *)
(* (room types with available_rooms > 0, the user's Active bookings) and   *)
(* then, when a button was pressed, runs the handler, which opens its own  *)
(* SQLite connection: the first INSERT/UPDATE opens a write transaction    *)
(* (one writer at a time), the following statements work on the writer's   *)
(* uncommitted copy, and conn.commit() publishes them.                     *)
(* app_sqlite.py: the Predict handler inserts a booking into the same      *)
(* store file.                                                             *)
(***************************************************************************)
EXTENDS Integers, Sequences, FiniteSets, TLC

\* ---------------------------------------------------------------- bounds
\* Largest available_rooms value a room starts with.
MaxAvail == 1
\* Largest number of rows of the Bookings table.
MaxBookings == 2
\* Rows of History beyond which no cancel for an arbitrary id is requested.
MaxHistory == 2

\* ------------------------------------------------------------- constants
\* room_id used when the room type matches no row of Rooms.
DefaultRoomId == 1
\* user_id app_sqlite.py writes into every booking.
SqliteUserId == 1

\* Rows of the Rooms table (room_id); room_type is never updated.
RoomIds == {1, 2}

RoomTypeOf(r) == IF r = 1 THEN "Room Type 1" ELSE "Room Type 2"

\* Room types the selectbox of app_sqlite.py offers (a prefix of the list).
SqliteRoomTypes == {"Room Type 1", "Room Type 2", "Room Type 3"}

\* st.selectbox over an empty option list yields None.
None == "None"

\* Browser sessions of user_interface (two tabs), and the logged-in user of
\* each: both are sessions of the sample account user@example.com.
Sessions == {"s1", "s2"}

UserOf(s) == 2

NoSession == "nobody"

VARIABLES
    available_rooms,     \* Rooms.available_rooms, committed, by room_id
    Bookings,            \* Bookings table, committed; booking_id = index
    History,             \* History table, committed
    writer,              \* session holding the SQLite write transaction
    tx,                  \* the writer's uncommitted copy of the tables
    pc,                  \* position of each session's script run
    room_type_reserved,  \* value of the room type selectbox
    room_id,             \* local room_id of the running handler
    booking_to_cancel,   \* value of the cancel selectbox (0: none)
    outcome,             \* last st.success / st.error shown to the session
    initial              \* available_rooms as first set up (never written)

\* One submission followed through the code between the form and the store:
\* what the form delivered, what the classifier does with it, what is kept.
VARIABLES
    app,                     \* the front end whose script runs
    step,                    \* position of the submission that is followed
    request,                 \* values of the booking form's widgets
    user_input,              \* the list handed to scaler.transform
    classifier,              \* what model.pkl / scaler.pkl do when called
    will_cancel,             \* local will_cancel (<<>> while unbound)
    cancellation_prediction, \* Bookings.cancellation_prediction, as written
    prob,                    \* a cancellation_prediction cell of the history
    risk_level,              \* the risk_level cell derived from it
    today,                   \* date.today() of the run
    stored_arrival_date      \* Bookings.arrival_date, as written

formVars == <<app, step, request, user_input, classifier, will_cancel,
              cancellation_prediction, prob, risk_level, today,
              stored_arrival_date>>

vars == <<available_rooms, Bookings, History, writer, tx, pc,
          room_type_reserved, room_id, booking_to_cancel, outcome, initial,
          formVars>>

NoTx == [Bookings |-> <<>>, available_rooms |-> [r \in RoomIds |-> 0],
         History |-> <<>>]

Committed == [Bookings |-> Bookings, available_rooms |-> available_rooms,
              History |-> History]

\* Mutant of Rollback: the statements run before the failure stay written.
RollbackKeepsWrites(committed, t) == t

\* The tables after a handler left its transaction without commit: the
\* connection is dropped and SQLite rolls the open transaction back.
Rollback(committed, t) == committed

\* SELECT DISTINCT room_type FROM Rooms WHERE available_rooms > 0
AvailableRoomTypes == {RoomTypeOf(r) : r \in {q \in RoomIds : available_rooms[q] > 0}}

\* Mutant of LookupRoomId: without a matching row, the last room.
LookupRoomIdLast(rt) ==
    IF \E r \in RoomIds : RoomTypeOf(r) = rt
    THEN CHOOSE r \in RoomIds : RoomTypeOf(r) = rt
    ELSE 2

\* SELECT room_id FROM Rooms WHERE room_type = ? LIMIT 1, else 1
LookupRoomId(rt) ==
    IF \E r \in RoomIds : RoomTypeOf(r) = rt
    THEN CHOOSE r \in RoomIds : RoomTypeOf(r) = rt
    ELSE DefaultRoomId

\* Mutant of NewBooking: the row inserted with another status literal.
NewBookingConfirmed(u, rid) ==
    [user_id |-> u, room_id |-> rid, status |-> "Confirmed"]

\* The row INSERT INTO Bookings writes.
NewBooking(u, rid) == [user_id |-> u, room_id |-> rid, status |-> "Active"]

\* Mutant of ReserveUnit: the decrement without its available_rooms > 0 guard.
ReserveUnitUnguarded(avail, rid) == [avail EXCEPT ![rid] = @ - 1]

\* UPDATE Rooms SET available_rooms = available_rooms - 1
\* WHERE room_id = ? AND available_rooms > 0
ReserveUnit(avail, rid) ==
    IF avail[rid] > 0 THEN [avail EXCEPT ![rid] = @ - 1] ELSE avail

\* UPDATE Bookings SET status = 'Cancelled' WHERE booking_id = ? AND user_id = ?
SetCancelled(bks, b, u) ==
    [i \in DOMAIN bks |->
        IF i = b /\ bks[i].user_id = u
        THEN [bks[i] EXCEPT !.status = "Cancelled"]
        ELSE bks[i]]

\* UPDATE Rooms SET available_rooms = available_rooms + 1 WHERE room_id = ?
ReleaseUnit(avail, rid) == [avail EXCEPT ![rid] = @ + 1]

\* The bookings fetch_booking_history(user_id) returns with status Active.
ActiveBookingsOf(u) ==
    {b \in DOMAIN Bookings :
        Bookings[b].user_id = u /\ Bookings[b].status = "Active"}

\* ------------------------------------------------------ the booking form

\* The two front ends: user_interface of app_with_auth.py, main of
\* app_sqlite.py.
Apps == {"app_with_auth", "app_sqlite"}

\* The enumerations the encoding indexes into.
meal_plans == <<"Meal Plan 1", "Meal Plan 2", "Meal Plan 3", "Not Selected">>

valid_room_types ==
    <<"Room Type 1", "Room Type 2", "Room Type 3", "Room Type 4",
      "Room Type 5", "Room Type 6", "Room Type 7">>

market_segments ==
    <<"Aviation", "Complementary", "Corporate", "Offline", "Online">>

\* The value of an integer number_input may pass 2^31 (its ceiling is
\* 2^53 - 1): a year is kept as billions and rest, year = billions * 10^9 +
\* rest.
YearOf(n) == [billions |-> 0, rest |-> n]

\* A date, as year, month, day.
SampleToday == <<2026, 11, 1>>

\* No date has been stored.
DateAtRest ==
    /\ today = SampleToday
    /\ stored_arrival_date = <<>>

\* The booking form as first rendered for a logged-in default user, no room
\* type being on offer.
DefaultRequest ==
    [no_of_adults |-> 1, no_of_children |-> 0, no_of_weekend_nights |-> 0,
     no_of_week_nights |-> 0, type_of_meal_plan |-> "Meal Plan 1",
     required_car_parking_space |-> "No", room_type |-> None,
     lead_time |-> 0, arrival_year |-> YearOf(2023), arrival_month |-> 1,
     arrival_date |-> 1, market_segment_type |-> "Online",
     repeated_guest |-> "Yes", no_of_previous_cancellations |-> 0,
     no_of_previous_bookings_not_cancelled |-> 0,
     avg_price_per_room |-> 100, no_of_special_requests |-> 0]

\* A classifier and scaler that loaded and answer: class 1, pair (0.3, 0.7).
\* Probabilities are counted in hundredths.
LoadedClassifier ==
    [loaded |-> TRUE, raises |-> FALSE, prediction |-> 1,
     proba_raises |-> FALSE, probs |-> <<30, 70>>]

\* A NULL cancellation_prediction cell.
NullCell == [kind |-> "None", value |-> 0]

\* No submission is being followed.
FormAtRest ==
    /\ app = "app_with_auth"
    /\ step = "idle"
    /\ request = DefaultRequest
    /\ user_input = <<>>
    /\ classifier = LoadedClassifier
    /\ will_cancel = <<>>
    /\ cancellation_prediction = <<>>
    /\ prob = NullCell
    /\ risk_level = None
    /\ DateAtRest

\* An empty store on which no session is active.
StoreAtRest ==
    /\ available_rooms = [r \in RoomIds |-> 0]
    /\ initial = available_rooms
    /\ Bookings = <<>>
    /\ History = <<>>
    /\ writer = NoSession
    /\ tx = NoTx
    /\ pc = [s \in Sessions |-> "idle"]
    /\ room_type_reserved = [s \in Sessions |-> None]
    /\ room_id = [s \in Sessions |-> DefaultRoomId]
    /\ booking_to_cancel = [s \in Sessions |-> 0]
    /\ outcome = [s \in Sessions |-> "none"]

Init ==
    /\ available_rooms \in [RoomIds -> 0..MaxAvail]
    /\ initial = available_rooms
    /\ Bookings = <<>>
    /\ History = <<>>
    /\ writer = NoSession
    /\ tx = NoTx
    /\ pc = [s \in Sessions |-> "idle"]
    /\ room_type_reserved = [s \in Sessions |-> None]
    /\ room_id = [s \in Sessions |-> DefaultRoomId]
    /\ booking_to_cancel = [s \in Sessions |-> 0]
    /\ outcome = [s \in Sessions |-> "none"]
    /\ FormAtRest

\* ------------------------------------------------------------- Book Now

\* The run in which Book Now was pressed builds the room type selectbox
\* from the rooms that have units left.  Every run rebuilds both selectboxes
\* and clears the messages of the run before; a session keeps the value of
\* the selectbox its handler reads and forgets the other.
SelectRoomType(s) ==
    /\ pc[s] = "idle"
    /\ Len(Bookings) < MaxBookings
    /\ \E rt \in (IF AvailableRoomTypes = {} THEN {None} ELSE AvailableRoomTypes) :
          room_type_reserved' = [room_type_reserved EXCEPT ![s] = rt]
    /\ pc' = [pc EXCEPT ![s] = "book"]
    /\ outcome' = [outcome EXCEPT ![s] = "none"]
    /\ booking_to_cancel' = [booking_to_cancel EXCEPT ![s] = 0]
    /\ UNCHANGED <<available_rooms, Bookings, History, writer, tx, room_id, initial>>
    /\ UNCHANGED formVars

\* Room lookup, then INSERT INTO Bookings, which opens the write transaction.
BookInsert(s) ==
    /\ pc[s] = "book"
    /\ writer = NoSession
    /\ Len(Bookings) < MaxBookings
    /\ LET rid == LookupRoomId(room_type_reserved[s]) IN
          /\ room_id' = [room_id EXCEPT ![s] = rid]
          /\ tx' = [Committed EXCEPT
                       !.Bookings = Append(@, NewBooking(UserOf(s), rid))]
    /\ writer' = s
    /\ pc' = [pc EXCEPT ![s] = "book_update"]
    /\ UNCHANGED <<available_rooms, Bookings, History, room_type_reserved,
                   booking_to_cancel, outcome, initial>>
    /\ UNCHANGED formVars

\* UPDATE Rooms ... available_rooms - 1, inside the transaction.
BookUpdateRooms(s) ==
    /\ pc[s] = "book_update"
    /\ writer = s
    /\ tx' = [tx EXCEPT !.available_rooms = ReserveUnit(@, room_id[s])]
    /\ pc' = [pc EXCEPT ![s] = "book_commit"]
    /\ UNCHANGED <<available_rooms, Bookings, History, writer,
                   room_type_reserved, room_id, booking_to_cancel, outcome, initial>>
    /\ UNCHANGED formVars

\* conn.commit() and st.success("Booking confirmed! ...").
BookCommit(s) ==
    /\ pc[s] = "book_commit"
    /\ writer = s
    /\ Bookings' = tx.Bookings
    /\ available_rooms' = tx.available_rooms
    /\ History' = tx.History
    /\ writer' = NoSession
    /\ tx' = NoTx
    /\ outcome' = [outcome EXCEPT ![s] = "confirmed"]
    /\ pc' = [pc EXCEPT ![s] = "idle"]
    /\ UNCHANGED <<room_type_reserved, booking_to_cancel, initial>>
    /\ room_id' = [room_id EXCEPT ![s] = DefaultRoomId]
    /\ UNCHANGED formVars

\* A store call raises (database locked past the busy timeout, I/O error):
\* the except branch reports the failure and nothing is committed.
BookFailed(s) ==
    /\ pc[s] \in {"book", "book_update", "book_commit"}
    /\ IF writer = s
       THEN /\ writer' = NoSession
            /\ tx' = NoTx
            /\ Bookings' = Rollback(Committed, tx).Bookings
            /\ available_rooms' = Rollback(Committed, tx).available_rooms
            /\ History' = Rollback(Committed, tx).History
       ELSE UNCHANGED <<writer, tx, Bookings, available_rooms, History>>
    /\ outcome' = [outcome EXCEPT ![s] = "book_failed"]
    /\ pc' = [pc EXCEPT ![s] = "idle"]
    /\ UNCHANGED <<room_type_reserved, booking_to_cancel, initial>>
    /\ room_id' = [room_id EXCEPT ![s] = DefaultRoomId]
    /\ UNCHANGED formVars

\* ------------------------------------------------ Cancel Selected Booking

\* The run in which Cancel Selected Booking was pressed fetches the user's
\* bookings and offers the Active ones; no Active booking, no button.
FetchActive(s) ==
    /\ pc[s] = "idle"
    /\ \E b \in ActiveBookingsOf(UserOf(s)) :
          booking_to_cancel' = [booking_to_cancel EXCEPT ![s] = b]
    /\ pc' = [pc EXCEPT ![s] = "cancel"]
    /\ outcome' = [outcome EXCEPT ![s] = "none"]
    /\ room_type_reserved' = [room_type_reserved EXCEPT ![s] = None]
    /\ UNCHANGED <<available_rooms, Bookings, History, writer, tx, room_id, initial>>
    /\ UNCHANGED formVars

\* UPDATE Bookings SET status = 'Cancelled', which opens the transaction.
CancelUpdateBooking(s) ==
    /\ pc[s] = "cancel"
    /\ writer = NoSession
    /\ tx' = [Committed EXCEPT
                 !.Bookings = SetCancelled(@, booking_to_cancel[s], UserOf(s))]
    /\ writer' = s
    /\ pc' = [pc EXCEPT ![s] = "cancel_rooms"]
    /\ UNCHANGED <<available_rooms, Bookings, History, room_type_reserved,
                   room_id, booking_to_cancel, outcome, initial>>
    /\ UNCHANGED formVars

\* SELECT room_id FROM Bookings WHERE booking_id = ?, then
\* UPDATE Rooms ... available_rooms + 1.  Without a row, fetchone() is None
\* and the subscript raises: only CancelFailed is left.
CancelUpdateRooms(s) ==
    /\ pc[s] = "cancel_rooms"
    /\ writer = s
    /\ booking_to_cancel[s] \in DOMAIN tx.Bookings
    /\ LET rid == tx.Bookings[booking_to_cancel[s]].room_id IN
          /\ room_id' = [room_id EXCEPT ![s] = rid]
          /\ tx' = [tx EXCEPT !.available_rooms = ReleaseUnit(@, rid)]
    /\ pc' = [pc EXCEPT ![s] = "cancel_history"]
    /\ UNCHANGED <<available_rooms, Bookings, History, writer,
                   room_type_reserved, booking_to_cancel, outcome, initial>>
    /\ UNCHANGED formVars

\* INSERT INTO History (user_id, booking_id).
CancelInsertHistory(s) ==
    /\ pc[s] = "cancel_history"
    /\ writer = s
    /\ tx' = [tx EXCEPT !.History =
                 Append(@, [user_id |-> UserOf(s),
                            booking_id |-> booking_to_cancel[s]])]
    /\ pc' = [pc EXCEPT ![s] = "cancel_commit"]
    /\ UNCHANGED <<available_rooms, Bookings, History, writer,
                   room_type_reserved, room_id, booking_to_cancel, outcome, initial>>
    /\ UNCHANGED formVars

\* conn.commit() and st.success("Booking cancelled successfully").
CancelCommit(s) ==
    /\ pc[s] = "cancel_commit"
    /\ writer = s
    /\ Bookings' = tx.Bookings
    /\ available_rooms' = tx.available_rooms
    /\ History' = tx.History
    /\ writer' = NoSession
    /\ tx' = NoTx
    /\ outcome' = [outcome EXCEPT ![s] = "cancelled"]
    /\ pc' = [pc EXCEPT ![s] = "idle"]
    /\ UNCHANGED <<room_type_reserved, booking_to_cancel, initial>>
    /\ room_id' = [room_id EXCEPT ![s] = DefaultRoomId]
    /\ UNCHANGED formVars

\* A store call of the cancel handler raises: nothing is committed.
CancelFailed(s) ==
    /\ pc[s] \in {"cancel", "cancel_rooms", "cancel_history", "cancel_commit"}
    /\ IF writer = s
       THEN /\ writer' = NoSession
            /\ tx' = NoTx
            /\ Bookings' = Rollback(Committed, tx).Bookings
            /\ available_rooms' = Rollback(Committed, tx).available_rooms
            /\ History' = Rollback(Committed, tx).History
       ELSE UNCHANGED <<writer, tx, Bookings, available_rooms, History>>
    /\ outcome' = [outcome EXCEPT ![s] = "cancel_failed"]
    /\ pc' = [pc EXCEPT ![s] = "idle"]
    /\ UNCHANGED <<room_type_reserved, booking_to_cancel, initial>>
    /\ room_id' = [room_id EXCEPT ![s] = DefaultRoomId]
    /\ UNCHANGED formVars

\* ------------------------------------------------ app_sqlite.py: Predict

\* Room lookup, INSERT INTO Bookings with user_id 1, commit; Rooms untouched.
Predict ==
    /\ writer = NoSession
    /\ Len(Bookings) < MaxBookings
    /\ \E rt \in SqliteRoomTypes :
          Bookings' = Append(Bookings, NewBooking(SqliteUserId, LookupRoomId(rt)))
    /\ UNCHANGED <<available_rooms, History, writer, tx, pc, room_type_reserved,
                   room_id, booking_to_cancel, outcome, initial>>
    /\ UNCHANGED formVars

\* ------------------------------------------------- external completion

\* The stay elapses: an Active booking becomes Completed (done outside the
\* two applications, which only read the status).
Complete ==
    /\ writer = NoSession
    /\ \E b \in DOMAIN Bookings :
          /\ Bookings[b].status = "Active"
          /\ Bookings' = [Bookings EXCEPT ![b].status = "Completed"]
    /\ UNCHANGED <<available_rooms, History, writer, tx, pc, room_type_reserved,
                   room_id, booking_to_cancel, outcome, initial>>
    /\ UNCHANGED formVars

Next ==
    \/ \E s \in Sessions : SelectRoomType(s)
    \/ \E s \in Sessions : BookInsert(s)
    \/ \E s \in Sessions : BookUpdateRooms(s)
    \/ \E s \in Sessions : BookCommit(s)
    \/ \E s \in Sessions : BookFailed(s)
    \/ \E s \in Sessions : FetchActive(s)
    \/ \E s \in Sessions : CancelUpdateBooking(s)
    \/ \E s \in Sessions : CancelUpdateRooms(s)
    \/ \E s \in Sessions : CancelInsertHistory(s)
    \/ \E s \in Sessions : CancelCommit(s)
    \/ \E s \in Sessions : CancelFailed(s)
    \/ Predict
    \/ Complete

Spec == Init /\ [][Next]_vars

\* ------------------------------------- cancel requests for any booking id

\* The cancel handler run for a booking id the caller supplies, as
\* cancelBooking(bookingId, userId) takes it: any id, the user's own, another
\* user's or none's.  (The selectbox of the page offers only the user's own
\* Active bookings: FetchActive.)
RequestCancel(s) ==
    /\ pc[s] = "idle"
    /\ Len(History) < MaxHistory
    /\ \E b \in 1..MaxBookings :
          booking_to_cancel' = [booking_to_cancel EXCEPT ![s] = b]
    /\ pc' = [pc EXCEPT ![s] = "cancel"]
    /\ outcome' = [outcome EXCEPT ![s] = "none"]
    /\ room_type_reserved' = [room_type_reserved EXCEPT ![s] = None]
    /\ UNCHANGED <<available_rooms, Bookings, History, writer, tx, room_id, initial>>
    /\ UNCHANGED formVars

NextAnyRequest ==
    \/ Next
    \/ \E s \in Sessions : RequestCancel(s)

SpecAnyRequest == Init /\ [][NextAnyRequest]_vars

TypeOK ==
    /\ available_rooms \in [RoomIds -> Int]
    /\ writer \in Sessions \cup {NoSession}
    /\ Len(Bookings) <= MaxBookings
    /\ \A b \in DOMAIN Bookings : Bookings[b].room_id \in RoomIds
    /\ \A s \in Sessions : booking_to_cancel[s] \in 0..Len(Bookings)

\* ------------------------------------------------------------ properties

\* Bookings of room r, and those of them that are Active.
BookingsOn(r) == {b \in DOMAIN Bookings : Bookings[b].room_id = r}

ActiveOn(r) == {b \in BookingsOn(r) : Bookings[b].status = "Active"}

\* History records of booking b.
RecordsOf(b) == {i \in DOMAIN History : History[i].booking_id = b}

\* Sessions whose Book Now for the room type of r ended "Booking confirmed!".
ConfirmedFor(r) ==
    {s \in Sessions :
        outcome[s] = "confirmed" /\ room_type_reserved[s] = RoomTypeOf(r)}

\* C1: of the booking submissions made against one room type that has K
\* available units, no more than K end with a Booking created and confirmed
\* (the others are rejected), as long as no cancellation has given a unit back.
C1_AtMostKSucceed ==
    History = <<>> =>
        \A r \in RoomIds : Cardinality(ConfirmedFor(r)) <= initial[r]

\* C2: a Book Now for a room type whose room has available_rooms = 0 when
\* its transaction runs ends rejected, and commits no new row of Bookings.
C2_ZeroUnitsRejected ==
    [][\A s \in Sessions :
          (pc[s] = "book_commit" /\ pc'[s] = "idle"
              /\ room_type_reserved[s] = RoomTypeOf(room_id[s])
              /\ available_rooms[room_id[s]] = 0)
          => (outcome'[s] = "book_failed" /\ Bookings' = Bookings)]_vars

\* C3: every room's available-unit count is >= 0 in every reachable state,
\* committed or inside a running transaction.
C3_AvailableNonNegative ==
    \A r \in RoomIds : available_rooms[r] >= 0 /\ tx.available_rooms[r] >= 0

\* C3 witness: a room was booked more often than it had units, so the guarded
\* decrement ran at zero, and its count stands at 0.
C3_Witness ==
    \E r \in RoomIds :
        /\ available_rooms[r] = 0
        /\ Cardinality({b \in BookingsOn(r) :
                           Bookings[b].user_id # SqliteUserId}) > initial[r]

\* C4: for each room, available units plus Active bookings of the room equal
\* the room's initial available units.
C4_CountMatchesActive ==
    \A r \in RoomIds :
        available_rooms[r] + Cardinality(ActiveOn(r)) = initial[r]

\* C5: two sessions that both ran a cancel on the same booking do not both
\* end "Booking cancelled successfully": one transition, one release, and the
\* other attempt rejected.
C5_OneCancelSucceeds ==
    \A s, t \in Sessions :
        (s # t /\ outcome[s] = "cancelled" /\ outcome[t] = "cancelled")
        => booking_to_cancel[s] # booking_to_cancel[t]

\* C6: a cancel that finishes on a booking already Cancelled in the store
\* fails and leaves every room's available-unit count as it was.
C6_SecondCancelRejected ==
    [][\A s \in Sessions :
          (pc[s] = "cancel_commit" /\ pc'[s] = "idle"
              /\ Bookings[booking_to_cancel[s]].status = "Cancelled")
          => (outcome'[s] = "cancel_failed"
              /\ available_rooms' = available_rooms)]_vars

\* C7: History holds exactly one record for each Cancelled booking and none
\* for any other booking.
C7_OneRecordPerCancelled ==
    \A b \in DOMAIN Bookings :
        Cardinality(RecordsOf(b)) =
            IF Bookings[b].status = "Cancelled" THEN 1 ELSE 0

\* C8: releases never outnumber the reserves that took a unit, so no room's
\* available-unit count exceeds its initial value.
C8_NeverAboveInitial ==
    \A r \in RoomIds : available_rooms[r] <= initial[r]

\* C9: every new row of Bookings has status Active, and a booking that is
\* Cancelled or Completed is never Active afterwards.
C9_ActiveThenTerminal ==
    [][/\ Len(Bookings') >= Len(Bookings)
       /\ \A b \in DOMAIN Bookings' :
             IF b \in DOMAIN Bookings
             THEN Bookings[b].status \in {"Cancelled", "Completed"}
                     => Bookings'[b].status # "Active"
             ELSE Bookings'[b].status = "Active"]_vars

\* C9 witness: a booking was cancelled twice (the second cancel met a
\* terminal status) beside another booking that completed.
C9_Witness ==
    \E b, c \in DOMAIN Bookings :
        /\ Bookings[b].status = "Cancelled"
        /\ Cardinality(RecordsOf(b)) >= 2
        /\ Bookings[c].status = "Completed"

\* C10: a Completed booking stays Completed, a cancel applied to it releases
\* nothing and writes no History record, and a Cancelled booking never
\* becomes Completed.
C10_TerminalIsFinal ==
    [][\A b \in DOMAIN Bookings :
          /\ Bookings[b].status = "Completed"
                => /\ Bookings'[b].status = "Completed"
                   /\ RecordsOf(b) = {}
          /\ Bookings[b].status = "Cancelled"
                => Bookings'[b].status # "Completed"]_vars

\* C11: the reserve of a booking submission followed at once by the release
\* of cancelling that booking gives the room's pre-reserve count back,
\* whatever that count is.
C11_ReserveReleaseRoundTrip ==
    \A s \in Sessions :
        (pc[s] = "book_update" /\ room_type_reserved[s] = RoomTypeOf(room_id[s])) =>
            ReleaseUnit(ReserveUnit(tx.available_rooms, room_id[s]), room_id[s])
                = tx.available_rooms

ExpectedCancelOutcome(b, u) ==
    IF b \notin DOMAIN Bookings THEN "not_found"
    ELSE IF Bookings[b].user_id # u THEN "not_owner"
    ELSE IF Bookings[b].status # "Active" THEN "already_terminal"
    ELSE "cancelled"

\* C13: a cancel run that ends on a missing, foreign or non-Active booking
\* ends in the rejection naming its case, never in success.
C13_RejectionNamesTheCase ==
    [][\A s \in Sessions :
          (pc[s] = "cancel_commit" /\ pc'[s] = "idle"
              /\ ExpectedCancelOutcome(booking_to_cancel[s], UserOf(s)) # "cancelled")
          => outcome'[s] = ExpectedCancelOutcome(booking_to_cancel[s], UserOf(s))]_vars

\* ------------------------------------------------- fetch_booking_history

\* Rows of the Users table (user_id): the two default accounts.
UserIds == {1, 2}

\* A user_id argument that is falsy in "if user_id:" (None or 0): no user.
NoUserId == 0

\* The elements of a set of booking ids, largest first (ORDER BY ... DESC).
OrderDesc(S) ==
    [i \in 1..Cardinality(S) |->
        CHOOSE x \in S : Cardinality({y \in S : y > x}) = i - 1]

\* Mutant of FetchBookingHistory: the user branch without its WHERE clause.
FetchBookingHistoryNoFilter(user_id) ==
    IF user_id # NoUserId
    THEN OrderDesc({b \in DOMAIN Bookings : Bookings[b].room_id \in RoomIds})
    ELSE OrderDesc({b \in DOMAIN Bookings : Bookings[b].user_id \in UserIds})

\* fetch_booking_history(user_id): with a user id, Bookings JOIN Rooms WHERE
\* b.user_id = ?; without one, Bookings JOIN Users; both by booking_id DESC.
FetchBookingHistory(user_id) ==
    IF user_id # NoUserId
    THEN OrderDesc({b \in DOMAIN Bookings :
                       Bookings[b].room_id \in RoomIds
                           /\ Bookings[b].user_id = user_id})
    ELSE OrderDesc({b \in DOMAIN Bookings : Bookings[b].user_id \in UserIds})

\* The booking ids a fetched list holds.
Listed(bookings) == {bookings[i] : i \in DOMAIN bookings}

\* C20: the list fetched for a user holds every stored booking of that user
\* once and no booking of another user; the list fetched without a user id
\* holds every stored booking once.
C20_ListIsScopedToUser ==
    /\ \A u \in UserIds :
          /\ Listed(FetchBookingHistory(u)) =
                 {b \in DOMAIN Bookings : Bookings[b].user_id = u}
          /\ Len(FetchBookingHistory(u)) =
                 Cardinality(Listed(FetchBookingHistory(u)))
    /\ Listed(FetchBookingHistory(NoUserId)) = DOMAIN Bookings
    /\ Len(FetchBookingHistory(NoUserId)) = Len(Bookings)

\* C20 witness: the store holds bookings of two users, so the user view has
\* something to leave out.
C20_Witness ==
    \E b, c \in DOMAIN Bookings :
        /\ Bookings[b].user_id = 1
        /\ Bookings[c].user_id = 2
        /\ Listed(FetchBookingHistory(2)) # DOMAIN Bookings
        /\ Len(FetchBookingHistory(NoUserId)) = 2

\* ---------------------------------------------------------------- scoring

\* Probabilities a predict_proba pair is drawn from, in hundredths.
ProbGrid == {0, 18, 30, 70, 82, 100}

\* What the pickled classifier and scaler may do: fail to load, raise in
\* transform or predict, predict class 0 or 1, raise in predict_proba or
\* return a pair.
Classifiers ==
    [loaded : BOOLEAN, raises : BOOLEAN, prediction : {0, 1},
     proba_raises : BOOLEAN, probs : ProbGrid \X ProbGrid]

\* model is not None and scaler is not None, and transform and predict
\* return.
Scored(c) == c.loaded /\ ~c.raises

\* will_cancel = prediction[0] == 0
WillCancel(prediction) == prediction = 0

\* Mutant of ProbaFallback: the two constants exchanged.
ProbaFallbackSwapped(wc) == IF wc THEN 30 ELSE 70

\* cancel_prob = 0.7 if will_cancel else 0.3
ProbaFallback(wc) == IF wc THEN 70 ELSE 30

\* Mutant of CancelProbFromProbs: probs[1] taken as it is.
CancelProbFromProbsDirect(wc, probs) == IF wc THEN probs[1] ELSE probs[2]

\* cancel_prob = probs[0] if will_cancel else 1 - probs[1]
CancelProbFromProbs(wc, probs) == IF wc THEN probs[1] ELSE 100 - probs[2]

\* Mutant of DefaultCancelProb: no value (-1) where the classifier gave none.
DefaultCancelProbAbsent(a) == -1

\* The value cancel_prob has when nothing was scored: 0.3 in app_with_auth.py
\* (set before the attempt, kept by "except: pass"), 0.5 in app_sqlite.py.
DefaultCancelProb(a) == IF a = "app_with_auth" THEN 30 ELSE 50

\* cancel_prob as the handler of front end a leaves it.
CancelProb(a, c) ==
    IF Scored(c)
    THEN IF c.proba_raises
         THEN ProbaFallback(WillCancel(c.prediction))
         ELSE CancelProbFromProbs(WillCancel(c.prediction), c.probs)
    ELSE DefaultCancelProb(a)

\* will_cancel as the handler of front end a leaves it: app_sqlite.py binds
\* it to False where nothing was scored, app_with_auth.py leaves it unbound.
WillCancelOf(a, c) ==
    IF Scored(c) THEN <<WillCancel(c.prediction)>>
    ELSE IF a = "app_sqlite" THEN <<FALSE>>
    ELSE <<>>

InitScoring ==
    /\ StoreAtRest
    /\ DateAtRest
    /\ app \in Apps
    /\ step = "submitted"
    /\ classifier \in Classifiers
    /\ request = DefaultRequest
    /\ user_input = <<>>
    /\ will_cancel = <<>>
    /\ cancellation_prediction = <<>>
    /\ prob = NullCell
    /\ risk_level = None

\* Book Now of app_with_auth.py: score silently, then INSERT the booking
\* with cancel_prob.
BookNowScored ==
    /\ app = "app_with_auth"
    /\ step = "submitted"
    /\ will_cancel' = WillCancelOf(app, classifier)
    /\ cancellation_prediction' =
           Append(cancellation_prediction, CancelProb(app, classifier))
    /\ step' = "saved"
    /\ UNCHANGED <<available_rooms, Bookings, History, writer, tx, pc,
                   room_type_reserved, room_id, booking_to_cancel, outcome,
                   initial, today, stored_arrival_date, app, request, user_input, classifier, prob,
                   risk_level>>

\* Predict of app_sqlite.py: score, show the result, then INSERT the booking
\* with float(cancel_prob).
PredictScored ==
    /\ app = "app_sqlite"
    /\ step = "submitted"
    /\ will_cancel' = WillCancelOf(app, classifier)
    /\ cancellation_prediction' =
           Append(cancellation_prediction, CancelProb(app, classifier))
    /\ step' = "saved"
    /\ UNCHANGED <<available_rooms, Bookings, History, writer, tx, pc,
                   room_type_reserved, room_id, booking_to_cancel, outcome,
                   initial, today, stored_arrival_date, app, request, user_input, classifier, prob,
                   risk_level>>

NextScoring ==
    \/ BookNowScored
    \/ PredictScored

SpecScoring == InitScoring /\ [][NextScoring]_vars

\* C14: a submission whose classifier did not load, or whose transform or
\* predict raised, is saved with risk probability 0.5 and is not classified
\* will-cancel.
C14_DegradedStoresHalf ==
    (step = "saved" /\ ~Scored(classifier)) =>
        /\ cancellation_prediction = <<50>>
        /\ will_cancel # <<TRUE>>

\* C15: a submission scored without a probability output is saved with 0.7
\* when class 0 was predicted and with 0.3 when class 1 was.
C15_ProbaFallbackByClass ==
    (step = "saved" /\ Scored(classifier) /\ classifier.proba_raises) =>
        cancellation_prediction =
            <<IF classifier.prediction = 0 THEN 70 ELSE 30>>

\* C15 witness: a class 0 prediction without probability output, saved.
C15_Witness ==
    /\ step = "saved"
    /\ Scored(classifier)
    /\ classifier.proba_raises
    /\ classifier.prediction = 0
    /\ cancellation_prediction = <<70>>

\* C16: class 0 is will-cancel and class 1 is not; with the pair (p0, p1) the
\* saved probability is p0 for class 0 and 1 - p1 for class 1.
C16_ClassZeroMeansCancel ==
    (step = "saved" /\ Scored(classifier) /\ ~classifier.proba_raises) =>
        /\ will_cancel = <<classifier.prediction = 0>>
        /\ classifier.prediction = 0 =>
               cancellation_prediction = <<classifier.probs[1]>>
        /\ classifier.prediction = 1 =>
               cancellation_prediction = <<100 - classifier.probs[2]>>

\* C16 witness: class 1 with the pair (0.3, 0.7), saved as 0.3.
C16_Witness ==
    /\ step = "saved"
    /\ Scored(classifier)
    /\ ~classifier.proba_raises
    /\ classifier.prediction = 1
    /\ classifier.probs = <<30, 70>>
    /\ will_cancel = <<FALSE>>
    /\ cancellation_prediction = <<30>>

\* C17: every saved booking carries a risk probability between 0 and 1.
C17_SavedProbabilityDefined ==
    /\ step = "saved" => Len(cancellation_prediction) = 1
    /\ \A i \in DOMAIN cancellation_prediction :
          cancellation_prediction[i] \in 0..100

\* C17 witness: a booking saved although the classifier did not load.
C17_Witness ==
    /\ step = "saved"
    /\ ~classifier.loaded
    /\ Len(cancellation_prediction) = 1

\* ------------------------------------------------------------- risk level

\* Probabilities a cell is drawn from, in hundredths, with some beyond 0..1.
CellValues == (0 - 5)..105

\* A cancellation_prediction cell of the history frame: NULL, a number, or
\* text that float() does not accept.
Cells ==
    {NullCell, [kind |-> "text", value |-> 0]}
        \cup {[kind |-> "number", value |-> v] : v \in CellValues}

\* Mutant of get_risk_level: the thresholds themselves fall in the lower tier.
get_risk_level_strict(p) ==
    IF p.kind = "None" THEN "Unknown"
    ELSE IF p.kind = "text" THEN "Unknown"
    ELSE IF p.value > 70 THEN "High"
    ELSE IF p.value > 40 THEN "Medium"
    ELSE "Low"

\* get_risk_level(prob), the same in both front ends: None is Unknown, a
\* value float() raises on is Unknown, otherwise the tier of float(prob).
get_risk_level(p) ==
    IF p.kind = "None" THEN "Unknown"
    ELSE IF p.kind = "text" THEN "Unknown"
    ELSE IF p.value >= 70 THEN "High"
    ELSE IF p.value >= 40 THEN "Medium"
    ELSE "Low"

InitRisk ==
    /\ StoreAtRest
    /\ DateAtRest
    /\ app \in Apps
    /\ step = "fetched"
    /\ prob \in Cells
    /\ risk_level = None
    /\ request = DefaultRequest
    /\ user_input = <<>>
    /\ classifier = LoadedClassifier
    /\ will_cancel = <<>>
    /\ cancellation_prediction = <<>>

\* admin_interface of app_with_auth.py adds the risk_level column.
AdminRiskLevel ==
    /\ app = "app_with_auth"
    /\ step = "fetched"
    /\ risk_level' = get_risk_level(prob)
    /\ step' = "classified"
    /\ UNCHANGED <<available_rooms, Bookings, History, writer, tx, pc,
                   room_type_reserved, room_id, booking_to_cancel, outcome,
                   initial, today, stored_arrival_date, app, request, user_input, classifier,
                   will_cancel, cancellation_prediction, prob>>

\* The Booking History tab of app_sqlite.py adds the risk_level column.
HistoryRiskLevel ==
    /\ app = "app_sqlite"
    /\ step = "fetched"
    /\ risk_level' = get_risk_level(prob)
    /\ step' = "classified"
    /\ UNCHANGED <<available_rooms, Bookings, History, writer, tx, pc,
                   room_type_reserved, room_id, booking_to_cancel, outcome,
                   initial, today, stored_arrival_date, app, request, user_input, classifier,
                   will_cancel, cancellation_prediction, prob>>

NextRisk ==
    \/ AdminRiskLevel
    \/ HistoryRiskLevel

SpecRisk == InitRisk /\ [][NextRisk]_vars

\* Order of the tiers.
TierRank(level) ==
    IF level = "High" THEN 3 ELSE IF level = "Medium" THEN 2
    ELSE IF level = "Low" THEN 1 ELSE 0

\* C18: a numeric p is High from 0.7 on, Medium from 0.4 up to 0.7 and Low
\* below 0.4, so 0.7 is High and 0.4 is Medium; an absent or non-numeric p is
\* Unknown; no larger p has a lower tier.
C18_TiersPartitionAndRise ==
    step = "classified" =>
        IF prob.kind = "number"
        THEN /\ prob.value >= 70 => risk_level = "High"
             /\ (prob.value >= 40 /\ prob.value < 70) => risk_level = "Medium"
             /\ prob.value < 40 => risk_level = "Low"
             /\ \A q \in CellValues :
                   q >= prob.value =>
                       TierRank(get_risk_level([kind |-> "number", value |-> q]))
                           >= TierRank(risk_level)
        ELSE risk_level = "Unknown"

\* C18 witness: the boundary 0.7 has been classified High.
C18_Witness ==
    /\ step = "classified"
    /\ prob = [kind |-> "number", value |-> 70]
    /\ risk_level = "High"

\* --------------------------------------------------------------- encoding

\* x in list
In(list, x) == \E i \in DOMAIN list : list[i] = x

\* list.index(x) for an x in list (Python counts from 0).
ListIndex(list, x) == (CHOOSE i \in DOMAIN list : list[i] = x) - 1

\* Mutant of room_index: an unlisted room type gets the index past the end.
room_index_past_end(rt) ==
    IF ~In(valid_room_types, rt) THEN 7 ELSE ListIndex(valid_room_types, rt)

\* room_index of app_with_auth.py: 0 for a room type not in valid_room_types.
room_index(rt) ==
    IF ~In(valid_room_types, rt) THEN 0 ELSE ListIndex(valid_room_types, rt)

\* market_index of app_with_auth.py: 4 (Online) for an unlisted segment.
market_index(m) ==
    IF ~In(market_segments, m) THEN 4 ELSE ListIndex(market_segments, m)

\* meal_index of app_with_auth.py: 3 (Not Selected) for an unlisted plan.
meal_index(mp) ==
    IF ~In(meal_plans, mp) THEN 3 ELSE ListIndex(meal_plans, mp)

\* 1 if v == 'Yes' else 0
YesNo(v) == IF v = "Yes" THEN 1 ELSE 0

\* user_input of app_with_auth.py.
UserInputWithAuth(r) ==
    <<r.no_of_adults, r.no_of_children, r.no_of_weekend_nights,
      r.no_of_week_nights, meal_index(r.type_of_meal_plan),
      YesNo(r.required_car_parking_space), room_index(r.room_type),
      r.lead_time, r.arrival_year, r.arrival_month, r.arrival_date,
      market_index(r.market_segment_type), YesNo(r.repeated_guest),
      r.no_of_previous_cancellations,
      r.no_of_previous_bookings_not_cancelled, r.avg_price_per_room,
      r.no_of_special_requests, r.no_of_adults + r.no_of_children,
      r.no_of_weekend_nights + r.no_of_week_nights>>

\* user_input of app_sqlite.py: list.index on the value of each selectbox,
\* which is one of the listed options.
UserInputSqlite(r) ==
    <<r.no_of_adults, r.no_of_children, r.no_of_weekend_nights,
      r.no_of_week_nights, ListIndex(meal_plans, r.type_of_meal_plan),
      YesNo(r.required_car_parking_space),
      ListIndex(valid_room_types, r.room_type),
      r.lead_time, r.arrival_year, r.arrival_month, r.arrival_date,
      ListIndex(market_segments, r.market_segment_type),
      YesNo(r.repeated_guest), r.no_of_previous_cancellations,
      r.no_of_previous_bookings_not_cancelled, r.avg_price_per_room,
      r.no_of_special_requests, r.no_of_adults + r.no_of_children,
      r.no_of_weekend_nights + r.no_of_week_nights>>

\* The elements of a list.
Options(list) == {list[i] : i \in DOMAIN list}

\* Values the encoding of front end a is given.  app_sqlite.py encodes what
\* its three selectboxes return.  app_with_auth.py guards each lookup, and
\* its room types come from the Rooms table (None when no room is on offer);
\* its encoding is also given one value outside each enumeration.
MealChoices(a) ==
    Options(meal_plans) \cup
        (IF a = "app_with_auth" THEN {"Half Board"} ELSE {})

RoomChoices(a) ==
    Options(valid_room_types) \cup
        (IF a = "app_with_auth" THEN {"Deluxe Suite", None} ELSE {})

MarketChoices(a) ==
    Options(market_segments) \cup
        (IF a = "app_with_auth" THEN {"Groups"} ELSE {})

Requests(a) ==
    [no_of_adults : {1, 2}, no_of_children : {0, 1},
     no_of_weekend_nights : {2}, no_of_week_nights : {3},
     type_of_meal_plan : MealChoices(a),
     required_car_parking_space : {"No", "Yes"},
     room_type : RoomChoices(a),
     lead_time : {10}, arrival_year : {YearOf(2023)}, arrival_month : {6},
     arrival_date : {15}, market_segment_type : MarketChoices(a),
     repeated_guest : {"No", "Yes"}, no_of_previous_cancellations : {4},
     no_of_previous_bookings_not_cancelled : {5},
     avg_price_per_room : {100}, no_of_special_requests : {7}]

InitEncode ==
    /\ StoreAtRest
    /\ DateAtRest
    /\ app \in Apps
    /\ step = "entered"
    /\ request \in Requests(app)
    /\ user_input = <<>>
    /\ classifier = LoadedClassifier
    /\ will_cancel = <<>>
    /\ cancellation_prediction = <<>>
    /\ prob = NullCell
    /\ risk_level = None

\* The run of user_interface builds user_input from the form.
EncodeWithAuth ==
    /\ app = "app_with_auth"
    /\ step = "entered"
    /\ user_input' = UserInputWithAuth(request)
    /\ step' = "encoded"
    /\ UNCHANGED <<available_rooms, Bookings, History, writer, tx, pc,
                   room_type_reserved, room_id, booking_to_cancel, outcome,
                   initial, today, stored_arrival_date, app, request, classifier, will_cancel,
                   cancellation_prediction, prob, risk_level>>

\* The run of main of app_sqlite.py builds user_input from the form.
EncodeSqlite ==
    /\ app = "app_sqlite"
    /\ step = "entered"
    /\ user_input' = UserInputSqlite(request)
    /\ step' = "encoded"
    /\ UNCHANGED <<available_rooms, Bookings, History, writer, tx, pc,
                   room_type_reserved, room_id, booking_to_cancel, outcome,
                   initial, today, stored_arrival_date, app, request, classifier, will_cancel,
                   cancellation_prediction, prob, risk_level>>

NextEncode ==
    \/ EncodeWithAuth
    \/ EncodeSqlite

SpecEncode == InitEncode /\ [][NextEncode]_vars

\* The categorical element at position k is the index of value v in list,
\* or the default d when v is not in list.
IndexOrDefault(k, list, v, d) ==
    /\ user_input[k] \in 0..(Len(list) - 1)
    /\ IF In(list, v) THEN list[user_input[k] + 1] = v ELSE user_input[k] = d

\* C19: the encoded vector has 19 elements in the fixed order; each
\* categorical element is an index within its enumeration, and a meal plan,
\* room type or market segment outside it is encoded as 3, 0 or 4.
C19_EncodeNineteenInRange ==
    step = "encoded" =>
        /\ Len(user_input) = 19
        /\ IndexOrDefault(5, meal_plans, request.type_of_meal_plan, 3)
        /\ IndexOrDefault(7, valid_room_types, request.room_type, 0)
        /\ IndexOrDefault(12, market_segments, request.market_segment_type, 4)
        /\ user_input[1] = request.no_of_adults
        /\ user_input[2] = request.no_of_children
        /\ user_input[3] = request.no_of_weekend_nights
        /\ user_input[4] = request.no_of_week_nights
        /\ user_input[6] = YesNo(request.required_car_parking_space)
        /\ user_input[8] = request.lead_time
        /\ user_input[9] = request.arrival_year
        /\ user_input[10] = request.arrival_month
        /\ user_input[11] = request.arrival_date
        /\ user_input[13] = YesNo(request.repeated_guest)
        /\ user_input[14] = request.no_of_previous_cancellations
        /\ user_input[15] = request.no_of_previous_bookings_not_cancelled
        /\ user_input[16] = request.avg_price_per_room
        /\ user_input[17] = request.no_of_special_requests
        /\ user_input[18] = request.no_of_adults + request.no_of_children
        /\ user_input[19] =
               request.no_of_weekend_nights + request.no_of_week_nights

\* C19 witness: a request with no room type and with a meal plan and a market
\* segment outside the enumerations has been encoded with the defaults.
C19_Witness ==
    /\ step = "encoded"
    /\ request.room_type = None
    /\ ~In(meal_plans, request.type_of_meal_plan)
    /\ ~In(market_segments, request.market_segment_type)
    /\ user_input[5] = 3
    /\ user_input[7] = 0
    /\ user_input[12] = 4

\* ------------------------------------------------ fallback, atomicity

\* SELECT room_id FROM Rooms WHERE room_type = ? returns no row.
NoRoomMatches(rt) == ~\E r \in RoomIds : RoomTypeOf(r) = rt

\* C21: a Book Now whose room type matches no room inserts the booking for
\* room 1, runs its reserve on room 1 and is confirmed with that booking; the
\* cancel of a booking releases the room the booking was created for.
C21_UnknownRoomTypeFallsBack ==
    [][\A s \in Sessions :
          /\ (pc[s] = "book" /\ pc'[s] = "book_update"
                  /\ NoRoomMatches(room_type_reserved[s]))
                => /\ room_id'[s] = DefaultRoomId
                   /\ tx'.Bookings =
                          Append(Bookings, NewBooking(UserOf(s), DefaultRoomId))
          /\ (pc[s] = "book_update" /\ pc'[s] = "book_commit"
                  /\ NoRoomMatches(room_type_reserved[s]))
                => tx'.available_rooms =
                       ReserveUnit(tx.available_rooms, DefaultRoomId)
          /\ (pc[s] = "book_commit" /\ outcome'[s] = "confirmed"
                  /\ NoRoomMatches(room_type_reserved[s]))
                => /\ Bookings' =
                          Append(Bookings, NewBooking(UserOf(s), DefaultRoomId))
                   /\ available_rooms' =
                          ReserveUnit(available_rooms, DefaultRoomId)
          /\ (pc[s] = "cancel_commit" /\ outcome'[s] = "cancelled")
                => available_rooms' =
                       ReleaseUnit(available_rooms,
                                   Bookings[booking_to_cancel[s]].room_id)]_vars

\* C21 witness: no room had a unit, so the one booking was made with no room
\* type on offer; it was created for room 1 and its cancel released room 1.
C21_Witness ==
    /\ \A r \in RoomIds : initial[r] = 0
    /\ Len(Bookings) = 1
    /\ Bookings[1] = [user_id |-> 2, room_id |-> DefaultRoomId,
                      status |-> "Cancelled"]
    /\ available_rooms[DefaultRoomId] = 1
    /\ \E s \in Sessions : outcome[s] = "cancelled"

\* ------------------------------------------------------------ arrival date

\* Years the number_input of the form may return: two calendar years, the
\* first year past date.max, the largest C int, the first integer past it and
\* a larger one.
YearChoices ==
    {YearOf(2023), YearOf(2024), YearOf(10000),
     [billions |-> 2, rest |-> 147483647],
     [billions |-> 2, rest |-> 147483648],
     [billions |-> 3, rest |-> 0]}

\* Values of the month and day sliders that are tried.
MonthChoices == {1, 2, 4, 12}

DayChoices == {1, 28, 29, 30, 31}

\* Dates date.today() may return.
TodayChoices == {SampleToday, <<2024, 2, 29>>}

\* The year converts to a C int (date() parses its arguments as C ints).
FitsCInt(y) ==
    y.billions < 2 \/ (y.billions = 2 /\ y.rest <= 147483647)

IsLeap(n) == n % 4 = 0 /\ (n % 100 # 0 \/ n % 400 = 0)

DaysInMonth(n, m) ==
    IF m = 2 THEN (IF IsLeap(n) THEN 29 ELSE 28)
    ELSE IF m \in {4, 6, 9, 11} THEN 30
    ELSE 31

\* What date(arrival_year, arrival_month, arrival_date) does: OverflowError
\* for a year that is no C int, ValueError for a year outside 1..9999, a
\* month outside 1..12 or a day the month does not have, else the date.
DateError(y, m, d) ==
    IF ~FitsCInt(y) THEN "OverflowError"
    ELSE IF y.billions > 0 \/ y.rest < 1 \/ y.rest > 9999 THEN "ValueError"
    ELSE IF m \notin 1..12 THEN "ValueError"
    ELSE IF d < 1 \/ d > DaysInMonth(y.rest, m) THEN "ValueError"
    ELSE "none"

\* booking_date after "except ValueError: booking_date = date.today()".
BookingDate(r, t) ==
    IF DateError(r.arrival_year, r.arrival_month, r.arrival_date) = "none"
    THEN <<r.arrival_year.rest, r.arrival_month, r.arrival_date>>
    ELSE t

\* The exception leaves the inner try: OverflowError is no ValueError, so it
\* reaches "except Exception" of the save and nothing is written.
SaveRaises(r) ==
    DateError(r.arrival_year, r.arrival_month, r.arrival_date) = "OverflowError"

DatedRequests ==
    {[DefaultRequest EXCEPT !.arrival_year = y, !.arrival_month = m,
                            !.arrival_date = d] :
        y \in YearChoices, m \in MonthChoices, d \in DayChoices}

InitDate ==
    /\ StoreAtRest
    /\ app \in Apps
    /\ step = "submitted"
    /\ request \in DatedRequests
    /\ today \in TodayChoices
    /\ stored_arrival_date = <<>>
    /\ user_input = <<>>
    /\ classifier = LoadedClassifier
    /\ will_cancel = <<>>
    /\ cancellation_prediction = <<>>
    /\ prob = NullCell
    /\ risk_level = None

\* Book Now of app_with_auth.py on a store nobody else uses: room lookup,
\* date, INSERT, UPDATE Rooms, commit; or the except branch.
BookNowDated ==
    /\ app = "app_with_auth"
    /\ step = "submitted"
    /\ IF SaveRaises(request)
       THEN /\ step' = "failed"
            /\ UNCHANGED <<Bookings, available_rooms, stored_arrival_date>>
       ELSE LET rid == LookupRoomId(request.room_type) IN
            /\ Bookings' = Append(Bookings, NewBooking(UserOf("s1"), rid))
            /\ available_rooms' = ReserveUnit(available_rooms, rid)
            /\ stored_arrival_date' =
                   Append(stored_arrival_date, BookingDate(request, today))
            /\ step' = "saved"
    /\ UNCHANGED <<History, writer, tx, pc, room_type_reserved, room_id,
                   booking_to_cancel, outcome, initial, today, app, request,
                   user_input, classifier, will_cancel,
                   cancellation_prediction, prob, risk_level>>

\* Predict of app_sqlite.py: room lookup, date, INSERT, commit; or the except
\* branch.
PredictDated ==
    /\ app = "app_sqlite"
    /\ step = "submitted"
    /\ IF SaveRaises(request)
       THEN /\ step' = "failed"
            /\ UNCHANGED <<Bookings, stored_arrival_date>>
       ELSE /\ Bookings' =
                   Append(Bookings,
                          NewBooking(SqliteUserId,
                                     LookupRoomId(request.room_type)))
            /\ stored_arrival_date' =
                   Append(stored_arrival_date, BookingDate(request, today))
            /\ step' = "saved"
    /\ UNCHANGED <<available_rooms, History, writer, tx, pc,
                   room_type_reserved, room_id, booking_to_cancel, outcome,
                   initial, today, app, request, user_input, classifier,
                   will_cancel, cancellation_prediction, prob, risk_level>>

NextDate ==
    \/ BookNowDated
    \/ PredictDated

SpecDate == InitDate /\ [][NextDate]_vars

\* The year, month and day of the request form no date.
InvalidDate(r) ==
    DateError(r.arrival_year, r.arrival_month, r.arrival_date) # "none"

\* C22: a submission whose year, month and day form no date ends with one
\* Active booking whose stored arrival date is today's date.
C22_InvalidDateStoresToday ==
    (step \in {"saved", "failed"} /\ InvalidDate(request)) =>
        /\ step = "saved"
        /\ Len(Bookings) = 1
        /\ Bookings[1].status = "Active"
        /\ stored_arrival_date = <<today>>

\* A date() that raises ValueError is replaced by today's date and the
\* booking is saved.
ValueErrorStoresToday ==
    (step \in {"saved", "failed"}
        /\ DateError(request.arrival_year, request.arrival_month,
                     request.arrival_date) = "ValueError") =>
        /\ step = "saved"
        /\ Len(Bookings) = 1
        /\ Bookings[1].status = "Active"
        /\ stored_arrival_date = <<today>>

\* The committed tables.
Tables == <<Bookings, available_rooms, History>>

\* C23: a Book Now or cancel that fails leaves Bookings, Rooms and History as
\* they were; no step of a handler before its commit changes them; the commit
\* of Book Now shows the inserted booking and the reserve in one step, the
\* commit of a cancel shows the status change, the release and the History
\* row in one step.
C23_AllOrNothing ==
    [][\A s \in Sessions :
          /\ (pc[s] # "idle" /\ outcome'[s] \in {"book_failed", "cancel_failed"})
                => Tables' = Tables
          /\ (pc[s] # pc'[s] /\ pc[s] \notin {"book_commit", "cancel_commit"})
                => Tables' = Tables
          /\ (pc[s] = "book_commit" /\ outcome'[s] = "confirmed")
                => /\ Bookings' =
                          Append(Bookings, NewBooking(UserOf(s), room_id[s]))
                   /\ available_rooms' =
                          ReserveUnit(available_rooms, room_id[s])
                   /\ History' = History
          /\ (pc[s] = "cancel_commit" /\ outcome'[s] = "cancelled")
                => /\ Bookings' =
                          SetCancelled(Bookings, booking_to_cancel[s], UserOf(s))
                   /\ available_rooms' =
                          ReleaseUnit(available_rooms,
                                      Bookings[booking_to_cancel[s]].room_id)
                   /\ History' =
                          Append(History,
                                 [user_id |-> UserOf(s),
                                  booking_id |-> booking_to_cancel[s]])]_vars

\* C23 witness: a Book Now has run its INSERT and its UPDATE Rooms and stands
\* before its commit, where it may still fail; the booking and the reserve
\* are in its transaction and the store shows neither.
C23_Witness ==
    \E s \in Sessions :
        /\ pc[s] = "book_commit"
        /\ writer = s
        /\ Len(tx.Bookings) = Len(Bookings) + 1
        /\ tx.available_rooms[room_id[s]] = available_rooms[room_id[s]] - 1
        /\ available_rooms = initial
        /\ Bookings = <<>>

====
